---- MODULE Spec2Model ----
(***************************************************************************)
(* KPI bot front end (open-webui "bottun"): the chat page's dialogue state *)
(* machine (sendMessage / handleParamUpdate / resetChat), the parameter    *)
(* selector's scope toggles, and ChatBubble's formatTimeRange.             *)
(*                                                                         *)
(* Text is modelled as a sequence of one-character strings.  Characters    *)
(* outside ASCII are written as their code point: "U4E0A" "U534A" "U671F"  *)
(* is the first-half suffix, "U4E0B" "U534A" "U671F" the second-half one.  *)
(*                                                                         *)
(* A JavaScript value that may be undefined is None for a string and, for  *)
(* an array, the empty tuple Nothing against the one-element tuple         *)
(* Some(a).                                                                *)
(***************************************************************************)
EXTENDS Integers, Sequences, FiniteSets

VARIABLES
    messages,        \* part_000:8   the transcript
    userInput,       \* part_000:9   text of the input box
    isLoading,       \* part_000:10
    currentContext,  \* part_000:14  the Dialogue Context
    turns,           \* the sendMessage invocations and where each stands
    nTurns,          \* how many sendMessage invocations have started
    nIn,             \* formatTimeRange: the raw input, by its parts
    nOut,            \* formatTimeRange: its result, or Pending
    nAgain,          \* formatTimeRange applied to its own result, once and twice
    now,             \* new Date(): the year and the month (1..12) of today
    timeVal,         \* ParameterSelector.selectTime: the shortcut last clicked and its val
    dlIn,            \* getDownloadUrl: its arguments
    dlOut,           \* getDownloadUrl: what its calls gave
    selectors,       \* ParameterSelector.svelte:12-18  the local state of each prompt's selector
    kpiProp,            \* part_002:5   the scope selector's prop `kpi`
    allowedCategories,  \* part_002:6
    initialSelection,   \* part_002:7
    selectedScopes,     \* part_002:17
    uiConfig,           \* part_002:12  whether /bottun/config/init has been loaded
    visibleCategories,  \* part_002:24
    openDropdown,       \* part_002:15
    dynamicValues,      \* part_002:13  per category, the request its values were loaded by
    loadingType,        \* part_002:14
    fetchesOut,         \* part_002:91  the requests for values that are out
    onSelected          \* part_002:8   what onSelect was last called with

chatVars == <<messages, userInput, isLoading, currentContext, turns, nTurns>>
normVars == <<nIn, nOut, nAgain>>
clockVars == <<now, timeVal>>
linkVars == <<dlIn, dlOut>>
\* what the chat page's own handlers leave alone
catalogVars == <<selectors>>
selectorVars ==
    <<kpiProp, allowedCategories, initialSelection, selectedScopes, uiConfig,
      visibleCategories, openDropdown, dynamicValues, loadingType, fetchesOut, onSelected>>
otherVars == <<normVars, clockVars, linkVars, catalogVars, selectorVars>>
vars == <<chatVars, normVars, clockVars, linkVars, catalogVars, selectorVars>>

None == "none"
Pending == <<"pending">>
Nothing == <<>>
Some(a) == <<a>>

(***************************************************************************)
(* ChatBubble.svelte: formatTimeRange                                      *)
(***************************************************************************)

IsSpace(c) == c \in {" ", "\t"}

IsDigit(c) == c \in {"0", "1", "2", "3", "4", "5", "6", "7", "8", "9"}

DigitVal(c) ==
    CASE c = "0" -> 0 [] c = "1" -> 1 [] c = "2" -> 2 [] c = "3" -> 3
      [] c = "4" -> 4 [] c = "5" -> 5 [] c = "6" -> 6 [] c = "7" -> 7
      [] c = "8" -> 8 [] c = "9" -> 9

DigitChar(d) ==
    CASE d = 0 -> "0" [] d = 1 -> "1" [] d = 2 -> "2" [] d = 3 -> "3"
      [] d = 4 -> "4" [] d = 5 -> "5" [] d = 6 -> "6" [] d = 7 -> "7"
      [] d = 8 -> "8" [] d = 9 -> "9"

\* String.prototype.toUpperCase, on the letters the model's alphabet holds.
ToUpperChar(c) ==
    CASE c = "f" -> "F" [] c = "y" -> "Y" [] c = "h" -> "H" [] c = "q" -> "Q"
      [] c = "x" -> "X" [] OTHER -> c

ToUpperCase(s) == [i \in 1..Len(s) |-> ToUpperChar(s[i])]

RECURSIVE TrimStart(_)
TrimStart(s) ==
    IF s # <<>> /\ IsSpace(Head(s)) THEN TrimStart(Tail(s)) ELSE s

RECURSIVE TrimEnd(_)
TrimEnd(s) ==
    IF s # <<>> /\ IsSpace(s[Len(s)]) THEN TrimEnd(SubSeq(s, 1, Len(s) - 1)) ELSE s

\* String.prototype.trimStart in place of trim
Trim_StartOnly(s) == TrimStart(s)

\* String.prototype.trim
Trim(s) == TrimEnd(TrimStart(s))

\* Number.parseInt(digits, 10) on a run of decimal digits
RECURSIVE ParseInt(_)
ParseInt(ds) ==
    IF ds = <<>> THEN 0
    ELSE 10 * ParseInt(SubSeq(ds, 1, Len(ds) - 1)) + DigitVal(ds[Len(ds)])

\* `${n}` for a number n >= 0: decimal, no padding
RECURSIVE NumToStr(_)
NumToStr(n) ==
    IF n < 10 THEN <<DigitChar(n)>>
    ELSE NumToStr(n \div 10) \o <<DigitChar(n % 10)>>

\* the first index >= i of s that holds no white space (Len(s)+1 when none): \s*
RECURSIVE SkipSpaces(_, _)
SkipSpaces(s, i) ==
    IF i <= Len(s) /\ IsSpace(s[i]) THEN SkipSpaces(s, i + 1) ELSE i

\* (1H|2H|H1|H2|Q[1-4]|<first half>|<second half>) under the i flag
FyTags ==
    { <<"1", "H">>, <<"2", "H">>, <<"H", "1">>, <<"H", "2">>,
      <<"Q", "1">>, <<"Q", "2">>, <<"Q", "3">>, <<"Q", "4">>,
      <<"U4E0A", "U534A", "U671F">>, <<"U4E0B", "U534A", "U671F">> }

IsFyTag(s) == ToUpperCase(s) \in FyTags

\* /^FY\s*(\d{2}|\d{4})\s*(...)?$/i with the year group taking d digits
FyMatchWith(s, d) ==
    LET p == SkipSpaces(s, 3)
        q == p + d
        r == SkipSpaces(s, q)
        rest == SubSeq(s, r, Len(s))
    IN  /\ Len(s) >= 2
        /\ ToUpperChar(s[1]) = "F"
        /\ ToUpperChar(s[2]) = "Y"
        /\ q - 1 <= Len(s)
        /\ \A i \in p..(q - 1) : IsDigit(s[i])
        /\ (rest = <<>> \/ IsFyTag(rest))

\* the groups of a match that took d digits: [1] the year, [2] the tag (<<>> when undefined)
FyGroups(s, d) ==
    LET p == SkipSpaces(s, 3)
        r == SkipSpaces(s, p + d)
    IN  [year |-> SubSeq(s, p, p + d - 1), tag |-> SubSeq(s, r, Len(s))]

FyEndYear(yearDigits) ==
    LET y == ParseInt(yearDigits) IN IF y < 100 THEN 2000 + y ELSE y

Months(y1, m1, y2, m2) == NumToStr(y1) \o m1 \o <<"-">> \o NumToStr(y2) \o m2

FyRange(g) ==
    LET fyEndYear == FyEndYear(g.year)
        fyStartYear == fyEndYear - 1
        tag == ToUpperCase(g.tag)
    IN  IF tag = <<"1", "H">> \/ tag = <<"H", "1">> \/ g.tag = <<"U4E0A", "U534A", "U671F">>
        THEN Months(fyStartYear, <<"0", "4">>, fyStartYear, <<"0", "9">>)
        ELSE IF tag = <<"2", "H">> \/ tag = <<"H", "2">> \/ g.tag = <<"U4E0B", "U534A", "U671F">>
        THEN Months(fyStartYear, <<"1", "0">>, fyEndYear, <<"0", "3">>)
        ELSE IF tag # <<>> /\ tag[1] = "Q" /\ ParseInt(Tail(tag)) = 1
        THEN Months(fyStartYear, <<"0", "4">>, fyStartYear, <<"0", "6">>)
        ELSE IF tag # <<>> /\ tag[1] = "Q" /\ ParseInt(Tail(tag)) = 2
        THEN Months(fyStartYear, <<"0", "7">>, fyStartYear, <<"0", "9">>)
        ELSE IF tag # <<>> /\ tag[1] = "Q" /\ ParseInt(Tail(tag)) = 3
        THEN Months(fyStartYear, <<"1", "0">>, fyStartYear, <<"1", "2">>)
        ELSE IF tag # <<>> /\ tag[1] = "Q" /\ ParseInt(Tail(tag)) = 4
        THEN Months(fyEndYear, <<"0", "1">>, fyEndYear, <<"0", "3">>)
        ELSE Months(fyStartYear, <<"0", "4">>, fyEndYear, <<"0", "3">>)

AllDigits(s, i, j) == \A k \in i..j : IsDigit(s[k])

\* /^20\d{4}-20\d{4}$/
IsRange20(s) ==
    /\ Len(s) = 13
    /\ s[1] = "2" /\ s[2] = "0" /\ AllDigits(s, 3, 6)
    /\ s[7] = "-"
    /\ s[8] = "2" /\ s[9] = "0" /\ AllDigits(s, 10, 13)

\* /^20\d{4}/: the closing anchor left out
IsMonth20_Unanchored(s) == Len(s) >= 6 /\ s[1] = "2" /\ s[2] = "0" /\ AllDigits(s, 3, 6)

\* /^20\d{5}$/: one digit too many
IsMonth20_SevenLong(s) == Len(s) = 7 /\ s[1] = "2" /\ s[2] = "0" /\ AllDigits(s, 3, 7)

\* /^20\d{4}$/
IsMonth20(s) == Len(s) = 6 /\ s[1] = "2" /\ s[2] = "0" /\ AllDigits(s, 3, 6)

\* /^20\d{2}$/
IsYear20(s) == Len(s) = 4 /\ s[1] = "2" /\ s[2] = "0" /\ AllDigits(s, 3, 4)

formatTimeRange(raw) ==
    LET s == Trim(raw)
    IN  IF s = <<>> THEN <<>>
        ELSE IF FyMatchWith(s, 2) THEN FyRange(FyGroups(s, 2))
        ELSE IF FyMatchWith(s, 4) THEN FyRange(FyGroups(s, 4))
        ELSE IF IsRange20(s) THEN s
        ELSE IF IsMonth20(s) THEN s \o <<"-">> \o s
        ELSE IF IsYear20(s) THEN s \o <<"0", "1", "-">> \o s \o <<"1", "2">>
        ELSE s

(***************************************************************************)
(* The inputs formatTimeRange is applied to, by their parts.               *)
(***************************************************************************)

\* the longest run of white space put before, inside and after an input
MaxPad == 1

RECURSIVE Spaces(_)
Spaces(n) == IF n = 0 THEN <<>> ELSE <<" ">> \o Spaces(n - 1)

Pads == {Spaces(n) : n \in 0..MaxPad}

Gaps == Pads \cup {<<"\t">>}

YearDigits == {"0", "2", "5"}

Years2 == {<<a, b>> : a \in YearDigits, b \in YearDigits}

Years4 ==
    {<<a, b, c, d>> : a \in {"0", "2"}, b \in YearDigits, c \in YearDigits, d \in YearDigits}
    \cup {<<"2", "1", "0", "0">>}

\* the tags as a user may write them: both letter cases, or none
TagsWritten ==
    FyTags \cup {<<"h", "1">>, <<"2", "h">>, <<"q", "3">>, <<"q", "4">>, <<>>}

Sixes ==
    { <<"2", "0", "2", "4", "0", "1">>, <<"2", "0", "2", "5", "1", "2">>,
      <<"2", "0", "2", "4", "1", "3">>, <<"1", "9", "9", "9", "1", "2">>,
      <<"2", "1", "0", "0", "0", "1">> }

Fours ==
    { <<"2", "0", "2", "4">>, <<"2", "0", "0", "0">>, <<"1", "9", "9", "9">>,
      <<"2", "1", "0", "0">> }

\* texts of no recognised form
OtherTexts ==
    { <<>>,
      <<"x">>,
      <<"x", " ", "x">>,
      <<"F", "Y">>,
      <<"F", "Y", "2">>,
      <<"F", "Y", "2", "0", "2">>,
      <<"F", "Y", "2", "5", " ", "H", "3">>,
      <<"F", "Y", "2", "5", " ", "Q", "5">>,
      <<"F", "Y", "2", "5", " ", "Q">>,
      <<"F", "Y", "2", "5", "-", "H", "2">>,
      <<"F", "Y", "2", "5", "H", "2", "x">>,
      <<"F", "Y", "2", "5", "1", "2", "H">>,
      <<"x", "F", "Y", "2", "5">>,
      <<"F", " ", "Y", "2", "5">>,
      <<"2", "0", "2", "4", "-", "2", "0", "2", "5">>,
      <<"2", "0", "2", "4", " ", "0", "1">>,
      <<"2", "0", "2", "4", "0">>,
      <<"2", "0", "2", "4", "0", "1", "-">>,
      <<"U4E0A", "U534A", "U671F">> }

NoParts ==
    [form |-> "other", lead |-> <<>>, fy |-> <<>>, ws1 |-> <<>>, year |-> <<>>,
     ws2 |-> <<>>, tag |-> <<>>, a |-> <<>>, b |-> <<>>, text |-> <<>>, trail |-> <<>>]

FyInputs ==
    { [NoParts EXCEPT !.form = "fy", !.lead = l, !.fy = f, !.ws1 = w1, !.year = y,
                      !.ws2 = w2, !.tag = t, !.trail = r] :
        l \in Pads, f \in {<<"F", "Y">>, <<"f", "y">>}, w1 \in Gaps,
        y \in Years2 \cup Years4, w2 \in Pads, t \in TagsWritten, r \in Pads }

RangeInputs ==
    { [NoParts EXCEPT !.form = "range", !.lead = l, !.a = a, !.b = b, !.trail = r] :
        l \in Pads, a \in Sixes, b \in Sixes, r \in Pads }

MonthInputs ==
    { [NoParts EXCEPT !.form = "month", !.lead = l, !.a = a, !.trail = r] :
        l \in Pads, a \in Sixes, r \in Pads }

YearInputs ==
    { [NoParts EXCEPT !.form = "year", !.lead = l, !.a = a, !.trail = r] :
        l \in Pads, a \in Fours, r \in Pads }

OtherInputs ==
    { [NoParts EXCEPT !.form = "other", !.lead = l, !.text = t, !.trail = r] :
        l \in Pads, t \in OtherTexts, r \in Pads }

NormInputs == FyInputs \cup RangeInputs \cup MonthInputs \cup YearInputs \cup OtherInputs

\* the raw string of an input
Raw(in) ==
    in.lead \o
    (CASE in.form = "fy" -> in.fy \o in.ws1 \o in.year \o in.ws2 \o in.tag
       [] in.form = "range" -> in.a \o <<"-">> \o in.b
       [] in.form = "month" -> in.a
       [] in.form = "year" -> in.a
       [] OTHER -> in.text)
    \o in.trail

(***************************************************************************)
(* The chat page (part_000), the API client (part_001) and the parameter   *)
(* selector (ParameterSelector.svelte).                                    *)
(***************************************************************************)

\* how many sendMessage invocations a run starts
MaxTurns == 2

TurnIds == 1..MaxTurns

\* uiConfig.kpi_levels.level2_mapping[..].value
Kpis == {"headcount"}

\* the time ranges the selector's shortcuts and text input send
TimeRanges == {"202404-202503"}

\* "category:value" entries the catalog offers
ScopeItems == {"org:A", "org:B"}

\* what the user types into the input box
Typed == {<<"ask">>}

\* the text a quick-suggestion button sends (part_000:219-227; the three buttons differ
\* in their text alone)
QuickTexts == {<<"quick", "headcount">>}

SeqToSet(q) == {q[i] : i \in 1..Len(q)}

\* Array.prototype.includes
Includes(q, x) == x \in SeqToSet(q)

\* Array.prototype.filter((s) => s !== x)
RECURSIVE FilterOut(_, _)
FilterOut(q, x) ==
    IF q = <<>> THEN <<>>
    ELSE IF Head(q) = x THEN FilterOut(Tail(q), x)
    ELSE <<Head(q)>> \o FilterOut(Tail(q), x)

\* a || [] for an array that may be undefined
OrEmpty(m) == IF m = Nothing THEN <<>> ELSE m[1]

\* {} : no field set
EmptyContext ==
    [kpi |-> None, time_range |-> None, scope |-> Nothing, missing_params |-> Nothing]

\* a transcript entry; the fields a message does not carry hold their empty value
Msg(kind) ==
    [kind |-> kind, content |-> <<>>, missingParams |-> Nothing,
     missingScopeCategories |-> Nothing, context |-> EmptyContext,
     error |-> FALSE, sql |-> FALSE, hasData |-> FALSE, download |-> Nothing]

Greeting == Msg("greeting")

ResetGreeting == Msg("reset")

UserMsg(content) == [Msg("user") EXCEPT !.content = content]

NoAnalysis ==
    [kpi |-> None, time_range |-> None, scope |-> Nothing, missing_params |-> Nothing,
     missing_scope_categories |-> Nothing, finished_selection |-> FALSE]

IdleTurn ==
    [pc |-> "idle", content |-> <<>>, fromUpdate |-> FALSE, sent |-> EmptyContext,
     analysis |-> NoAnalysis, sql |-> [kpi |-> None, time_range |-> None, scope |-> Nothing]]

\* a sendMessage invocation that has returned
DoneTurn == [IdleTurn EXCEPT !.pc = "done"]

\* the page after onMount found a token and loaded the configuration (part_000:16-27)
ChatInit ==
    /\ messages = <<Greeting>>
    /\ userInput = <<>>
    /\ isLoading = FALSE
    /\ currentContext = EmptyContext
    /\ turns = [t \in TurnIds |-> IdleTurn]
    /\ nTurns = 0


(***************************************************************************)
(* What the backend may answer.  analyzeQuery and generateAndExecuteSQL    *)
(* (part_001) return the response body, return null when the request       *)
(* failed with no `detail` (a transport failure), and throw the detail of  *)
(* an HTTP error response.                                                 *)
(***************************************************************************)

Body(k, t, sc, mp, cats, fin) ==
    [kpi |-> k, time_range |-> t, scope |-> sc, missing_params |-> mp,
     missing_scope_categories |-> cats, finished_selection |-> fin]

\* the response bodies of POST /bottun/chat/analyze the model draws from: one or two
\* for every branch of sendMessage, with each of kpi, time_range and scope both set and
\* not set
AnalysisBodies ==
    { Body(None, "202404-202503", Nothing, Some(<<"scope", "kpi">>), Some(<<"org">>), FALSE),
      Body("headcount", None, Some(<<>>), Some(<<"time_range", "scope">>), Some(<<"org">>), FALSE),
      Body("headcount", "202404-202503", Some(<<"org:A">>), Some(<<"scope">>), Nothing, FALSE),
      Body("headcount", "202404-202503", Some(<<"org:A">>), Some(<<>>), Nothing, TRUE),
      Body("headcount", "202404-202503", Some(<<"org:A">>), Some(<<>>), Nothing, FALSE) }

\* the outcomes of `await analyzeQuery(token, content, currentContext)`
analyzeQuery ==
    { [kind |-> "ok", body |-> b] : b \in AnalysisBodies }
    \cup { [kind |-> "null", body |-> NoAnalysis], [kind |-> "throw", body |-> NoAnalysis] }

\* the outcomes of `await generateAndExecuteSQL(token, kpi, time_range, scope)`
generateAndExecuteSQL ==
    { [kind |-> "ok", sql |-> TRUE, hasData |-> d] : d \in BOOLEAN }
    \cup { [kind |-> "null", sql |-> FALSE, hasData |-> FALSE],
           [kind |-> "throw", sql |-> FALSE, hasData |-> FALSE] }

\* part_001:139-145; scope.forEach throws a TypeError when scope is undefined
getDownloadUrlThrows(kpi, timeRange, scope) == scope = Nothing

\* part_001:139-145 with the scope entries appended last to first
getDownloadUrl_Reversed(kpi, timeRange, scope) ==
    Some(<<<<"kpi", kpi>>>>
         \o (IF timeRange # None THEN <<<<"time_range", timeRange>>>> ELSE <<>>)
         \o [i \in 1..Len(OrEmpty(scope)) |->
                 <<"scope", OrEmpty(scope)[Len(OrEmpty(scope)) + 1 - i]>>])

\* part_001:139-145: the locator, by the parameters of its query string in their order
getDownloadUrl(kpi, timeRange, scope) ==
    Some(<<<<"kpi", kpi>>>>
         \o (IF timeRange # None THEN <<<<"time_range", timeRange>>>> ELSE <<>>)
         \o [i \in 1..Len(OrEmpty(scope)) |-> <<"scope", OrEmpty(scope)[i]>>])

\* getDownloadUrl has not been given arguments
NoLinkInput == [kpi |-> None, time_range |-> None, scope |-> Nothing]

(***************************************************************************)
(* sendMessage (part_000:29-131).  `await tick()` resumes in the same      *)
(* microtask checkpoint, before any user event or response is handled, so  *)
(* the function runs in three atomic pieces: up to the analyze request,    *)
(* from its answer up to the SQL request or the end, and from the SQL      *)
(* answer to the end.                                                      *)
(***************************************************************************)

\* lines 29-44 with the fromUpdate flag ignored at line 33
sendMessage_AlwaysEchoes(text, fromUpdate) ==
    /\ ~(text = <<>> /\ userInput = <<>> /\ ~fromUpdate)
    /\ nTurns < MaxTurns
    /\ LET content == IF text # <<>> THEN text ELSE userInput
           t == nTurns + 1
       IN  /\ messages' = Append(messages, UserMsg(content))
           /\ userInput' = <<>>
           /\ isLoading' = TRUE
           /\ turns' = [turns EXCEPT ![t] =
                  [IdleTurn EXCEPT !.pc = "analyze", !.content = content,
                                   !.fromUpdate = fromUpdate, !.sent = currentContext]]
           /\ nTurns' = t
           /\ UNCHANGED <<currentContext, otherVars>>

\* lines 29-44: from the call up to the analyze request
sendMessage(text, fromUpdate) ==
    /\ ~(text = <<>> /\ userInput = <<>> /\ ~fromUpdate)
    /\ nTurns < MaxTurns
    /\ LET content == IF text # <<>> THEN text ELSE userInput
           t == nTurns + 1
       IN  /\ messages' = IF fromUpdate THEN messages ELSE Append(messages, UserMsg(content))
           /\ userInput' = IF fromUpdate THEN userInput ELSE <<>>
           /\ isLoading' = TRUE
           /\ turns' = [turns EXCEPT ![t] =
                  [IdleTurn EXCEPT !.pc = "analyze", !.content = content,
                                   !.fromUpdate = fromUpdate, !.sent = currentContext]]
           /\ nTurns' = t
           /\ UNCHANGED <<currentContext, otherVars>>

\* lines 48-53
ContextOf(analysis) ==
    [kpi |-> analysis.kpi, time_range |-> analysis.time_range, scope |-> analysis.scope,
     missing_params |-> analysis.missing_params]

\* line 56 asking for more than one named slot
HasMissing_Several(analysis) == Len(OrEmpty(analysis.missing_params)) > 1

\* line 56
HasMissing(analysis) == OrEmpty(analysis.missing_params) # <<>>

\* line 71 as a plain else
FinishedSelection_Always(analysis) == TRUE

\* line 71
FinishedSelection(analysis) == analysis.finished_selection

\* lines 57-60 asking for the slot missing_params lists first
replyContent_ListOrder(analysis) ==
    LET first == Head(OrEmpty(analysis.missing_params))
    IN  IF first = "scope" THEN <<"prompt", "scope", analysis.kpi>>
        ELSE IF first \in {"kpi", "time_range"} THEN <<"prompt", first>>
        ELSE <<"prompt", "more">>

\* lines 57-60: the text of the prompt, by the slot it asks for
replyContent(analysis) ==
    LET missing == OrEmpty(analysis.missing_params)
    IN  IF Includes(missing, "kpi") THEN <<"prompt", "kpi">>
        ELSE IF Includes(missing, "time_range") THEN <<"prompt", "time_range">>
        ELSE IF Includes(missing, "scope") THEN <<"prompt", "scope", analysis.kpi>>
        ELSE <<"prompt", "more">>

\* lines 62-68
PromptMsg(analysis, ctx) ==
    [Msg("prompt") EXCEPT !.content = replyContent(analysis),
                          !.missingParams = analysis.missing_params,
                          !.missingScopeCategories = analysis.missing_scope_categories,
                          !.context = ctx]

\* line 125
ErrorMsg(ctx) == [Msg("error") EXCEPT !.error = TRUE, !.context = ctx]

\* line 76 reading the context as it was before line 48 replaced it
DispatchArgs_Stale(ctx) ==
    [kpi |-> currentContext.kpi, time_range |-> currentContext.time_range,
     scope |-> currentContext.scope]

\* line 76: the arguments of the SQL request
DispatchArgs(ctx) == [kpi |-> ctx.kpi, time_range |-> ctx.time_range, scope |-> ctx.scope]

\* lines 44-76 and 123-130: the analyze request's outcome r reaches turn t
AnalyzeReturn(t, r) ==
    /\ turns[t].pc = "analyze"
    /\ UNCHANGED <<userInput, nTurns, otherVars>>
    /\ IF r.kind = "throw" THEN
              /\ messages' = Append(messages, ErrorMsg(currentContext))
              /\ isLoading' = FALSE
              /\ turns' = [turns EXCEPT ![t] = DoneTurn]
              /\ UNCHANGED currentContext
       ELSE IF r.kind = "null" THEN
              /\ isLoading' = FALSE
              /\ turns' = [turns EXCEPT ![t] = DoneTurn]
              /\ UNCHANGED <<messages, currentContext>>
       ELSE
              LET ctx == ContextOf(r.body)
              IN  /\ currentContext' = ctx
                  /\ IF HasMissing(r.body)
                     THEN /\ messages' = Append(messages, PromptMsg(r.body, ctx))
                          /\ isLoading' = FALSE
                          /\ turns' = [turns EXCEPT ![t] = DoneTurn]
                     ELSE IF FinishedSelection(r.body)
                     THEN /\ messages' = Append(messages, Msg("generating"))
                          /\ isLoading' = isLoading
                          /\ turns' = [turns EXCEPT ![t].pc = "sql", ![t].analysis = r.body,
                                                    ![t].sql = DispatchArgs(ctx)]
                     ELSE /\ messages' = Append(messages, [Msg("updated") EXCEPT !.context = ctx])
                          /\ isLoading' = FALSE
                          /\ turns' = [turns EXCEPT ![t] = DoneTurn]

\* Array.prototype.pop: drops the last element, whatever it is
Pop(q) == IF q = <<>> THEN q ELSE SubSeq(q, 1, Len(q) - 1)

\* lines 105-112 with the link of line 90 built whether or not there are rows
ResultMsg_AlwaysLinks(res, ctx) ==
    [Msg("result") EXCEPT !.sql = res.sql, !.hasData = res.hasData, !.context = ctx,
         !.download = getDownloadUrl(ctx.kpi, ctx.time_range, ctx.scope)]

\* lines 105-112
ResultMsg(res, ctx) ==
    [Msg("result") EXCEPT !.sql = res.sql, !.hasData = res.hasData, !.context = ctx,
         !.download = IF res.hasData
                      THEN getDownloadUrl(ctx.kpi, ctx.time_range, ctx.scope)
                      ELSE Nothing]

\* line 114 carrying the fields of a result as line 105-112 does
FailedMsg_LikeResult(ctx) ==
    [Msg("failed") EXCEPT !.error = TRUE, !.context = ctx, !.sql = TRUE, !.hasData = TRUE,
         !.download = getDownloadUrl(ctx.kpi, ctx.time_range, ctx.scope)]

\* line 114
FailedMsg(ctx) == [Msg("failed") EXCEPT !.error = TRUE, !.context = ctx]

\* lines 76-130 without the finally block of lines 126-127
SqlReturn_NoFinally(t, res) ==
    /\ turns[t].pc = "sql"
    /\ messages' =
          IF res.kind = "throw" THEN Append(messages, ErrorMsg(currentContext))
          ELSE IF res.kind = "null" THEN Append(Pop(messages), FailedMsg(currentContext))
          ELSE IF res.hasData /\ getDownloadUrlThrows(currentContext.kpi,
                      currentContext.time_range, currentContext.scope)
          THEN Append(Pop(messages), ErrorMsg(currentContext))
          ELSE Append(Pop(messages), ResultMsg(res, currentContext))
    /\ isLoading' = isLoading
    /\ turns' = [turns EXCEPT ![t] = DoneTurn]
    /\ UNCHANGED <<userInput, currentContext, nTurns, otherVars>>

\* lines 76-130: the SQL request's outcome res reaches turn t
SqlReturn(t, res) ==
    /\ turns[t].pc = "sql"
    /\ messages' =
          IF res.kind = "throw" THEN Append(messages, ErrorMsg(currentContext))
          ELSE IF res.kind = "null" THEN Append(Pop(messages), FailedMsg(currentContext))
          ELSE IF res.hasData /\ getDownloadUrlThrows(currentContext.kpi,
                      currentContext.time_range, currentContext.scope)
          THEN Append(Pop(messages), ErrorMsg(currentContext))
          ELSE Append(Pop(messages), ResultMsg(res, currentContext))
    /\ isLoading' = FALSE
    /\ turns' = [turns EXCEPT ![t] = DoneTurn]
    /\ UNCHANGED <<userInput, currentContext, nTurns, otherVars>>


(***************************************************************************)
(* The user's events.                                                      *)
(***************************************************************************)

\* bind:value={userInput}
TypeInput(text) ==
    /\ userInput # text
    /\ userInput' = text
    /\ UNCHANGED <<messages, isLoading, currentContext, turns, nTurns, otherVars>>

\* part_000:236  on:keydown Enter
PressEnter == userInput # <<>> /\ sendMessage(<<>>, FALSE)

\* part_000:238-244  the send button, disabled while isLoading
ClickSend == ~isLoading /\ sendMessage(<<>>, FALSE)

\* part_000:217-229  shown while the transcript holds at most one message
QuickSuggestion(text) == Len(messages) <= 1 /\ sendMessage(text, FALSE)

\* the categories a scope prompt lists (ParameterSelector.svelte:207)
Categories == {"org"}

\* ParameterSelector.svelte:79: the selector's context prop has a kpi
HasKpi(ctx) == ctx.kpi # None

\* the local state of a ParameterSelector as constructed (ParameterSelector.svelte:12-18)
FreshSelector ==
    [scopeSelections |-> [c \in Categories |-> None],
     scopeOptions |-> [c \in Categories |-> Nothing],
     loadingScope |-> None,
     showScopeDropdown |-> None,
     pending |-> {}]

\* no prompt has a selector yet; a component's state is kept under its message's index
NoSelectors == [m \in {} |-> FreshSelector]

\* the selector of message m
Sel(m) == IF m \in DOMAIN selectors THEN selectors[m] ELSE FreshSelector

\* the selectors with that of message m replaced
WithSel(m, sel) ==
    [x \in DOMAIN selectors \cup {m} |-> IF x = m THEN sel ELSE selectors[x]]

\* part_000:180-187
resetChat ==
    /\ currentContext' = EmptyContext
    /\ messages' = <<ResetGreeting>>
    /\ selectors' = NoSelectors
    /\ UNCHANGED <<userInput, isLoading, turns, nTurns, normVars, clockVars, linkVars, selectorVars>>

\* the detail of an `update` event; a field the selector does not set is None / Nothing / FALSE
NoDetail ==
    [kpi |-> None, time_range |-> Nothing, scope |-> Nothing, partial |-> FALSE,
     confirm_scope |-> FALSE]

\* part_000:137-178 with line 173 building the context from the detail alone
handleParamUpdate_DetailOnly(detail) ==
    IF detail.confirm_scope THEN sendMessage(<<"confirm">>, TRUE)
    ELSE IF detail.partial
    THEN /\ currentContext' = [EmptyContext EXCEPT !.scope = detail.scope]
         /\ UNCHANGED <<messages, userInput, isLoading, turns, nTurns,
                        normVars, clockVars, linkVars, selectorVars>>
    ELSE sendMessage(
             IF detail.kpi # None THEN <<"query", detail.kpi>>
             ELSE IF detail.time_range # Nothing THEN <<"time", detail.time_range[1]>>
             ELSE IF detail.scope # Nothing THEN <<"scope">> \o detail.scope[1]
             ELSE <<>>,
             FALSE)

\* part_000:137-178
handleParamUpdate(detail) ==
    IF detail.confirm_scope THEN sendMessage(<<"confirm">>, TRUE)
    ELSE IF detail.partial
    THEN /\ currentContext' = [currentContext EXCEPT !.scope = detail.scope]
         /\ UNCHANGED <<messages, userInput, isLoading, turns, nTurns,
                        normVars, clockVars, linkVars, selectorVars>>
    ELSE sendMessage(
             IF detail.kpi # None THEN <<"query", detail.kpi>>
             ELSE IF detail.time_range # Nothing THEN <<"time", detail.time_range[1]>>
             ELSE IF detail.scope # Nothing THEN <<"scope">> \o detail.scope[1]
             ELSE <<>>,
             FALSE)

\* ChatBubble.svelte:60-70: message m shows a ParameterSelector
ShowsSelector(m) ==
    /\ m \in DOMAIN messages
    /\ messages[m].kind \notin {"user"}
    /\ OrEmpty(messages[m].missingParams) # <<>>

\* ParameterSelector.svelte:21-23
isMissingKpi(m) == ShowsSelector(m) /\ Includes(OrEmpty(messages[m].missingParams), "kpi")

isMissingTime(m) == ShowsSelector(m) /\ Includes(OrEmpty(messages[m].missingParams), "time_range")

isMissingScope(m) == ShowsSelector(m) /\ Includes(OrEmpty(messages[m].missingParams), "scope")

\* `${category}:${value}` (ParameterSelector.svelte:116, part_002:112)
ScopeStr(category, value) ==
    CASE category = "org" /\ value = "A" -> "org:A"
      [] category = "org" /\ value = "B" -> "org:B"
      [] category = "tool" /\ value = "X" -> "tool:X"

\* s.split(':') (part_002:219)
Split(s) ==
    CASE s = "org:A" -> <<"org", "A">>
      [] s = "org:B" -> <<"org", "B">>
      [] s = "tool:X" -> <<"tool", "X">>

\* ParameterSelector.svelte:26-28
selectKpi(m, kpiValue) ==
    /\ isMissingKpi(m)
    /\ handleParamUpdate([NoDetail EXCEPT !.kpi = kpiValue])

\* ParameterSelector.svelte:31-75: a shortcut or the typed range
selectTime(m, val) ==
    /\ isMissingTime(m)
    /\ handleParamUpdate([NoDetail EXCEPT !.time_range = Some(val)])

\* today's date as selectTime reads it
Dates == [year : {2000, 2024, 2025}, month : 1..12]

NoShortcut == [type |-> "none", val |-> <<>>]

\* ParameterSelector.svelte:41-42 with the fiscal year starting after April
TimeShortcut_AfterApril(type, currentYear, currentMonth) ==
    LET fyStartYear == IF currentMonth > 4 THEN currentYear ELSE currentYear - 1
        fyEndYear == fyStartYear + 1
    IN  IF type = "fy" THEN Months(fyStartYear, <<"0", "4">>, fyEndYear, <<"0", "3">>)
        ELSE IF type = "half"
        THEN IF currentMonth >= 4 /\ currentMonth <= 9
             THEN Months(fyStartYear, <<"0", "4">>, fyStartYear, <<"0", "9">>)
             ELSE Months(fyStartYear, <<"1", "0">>, fyEndYear, <<"0", "3">>)
        ELSE <<>>

\* ParameterSelector.svelte:36-64: val for the shortcut `type` on a day of currentYear,
\* currentMonth
TimeShortcut(type, currentYear, currentMonth) ==
    LET fyStartYear == IF currentMonth >= 4 THEN currentYear ELSE currentYear - 1
        fyEndYear == fyStartYear + 1
    IN  IF type = "fy" THEN Months(fyStartYear, <<"0", "4">>, fyEndYear, <<"0", "3">>)
        ELSE IF type = "half"
        THEN IF currentMonth >= 4 /\ currentMonth <= 9
             THEN Months(fyStartYear, <<"0", "4">>, fyStartYear, <<"0", "9">>)
             ELSE Months(fyStartYear, <<"1", "0">>, fyEndYear, <<"0", "3">>)
        ELSE <<>>

\* ParameterSelector.svelte:31-69: the shortcut buttons 'fy' and 'half', clicked today
selectTimeNow(m, type) ==
    /\ isMissingTime(m)
    /\ LET val == TimeShortcut(type, now.year, now.month)
       IN  /\ val # <<>>
           /\ timeVal' = [type |-> type, val |-> val]
           /\ messages' = Append(messages, UserMsg(<<"time", val>>))
           /\ userInput' = <<>>
           /\ isLoading' = TRUE
           /\ nTurns < MaxTurns
           /\ turns' = [turns EXCEPT ![nTurns + 1] =
                  [IdleTurn EXCEPT !.pc = "analyze", !.content = <<"time", val>>,
                                   !.sent = currentContext]]
           /\ nTurns' = nTurns + 1
           /\ UNCHANGED <<currentContext, normVars, now, linkVars, catalogVars,
                       selectorVars>>

\* ParameterSelector.svelte:116-125: the selector toggles against the context of ITS message
ToggledScopes(ctx, item) ==
    LET currentScopes == OrEmpty(ctx.scope)
    IN  IF Includes(currentScopes, item) THEN FilterOut(currentScopes, item)
        ELSE Append(currentScopes, item)

\* ParameterSelector.svelte:109-134; options load only when the message's context has a kpi (:79)
selectScope(m, item) ==
    /\ isMissingScope(m)
    /\ messages[m].context.kpi # None
    /\ selectors' = WithSel(m, [Sel(m) EXCEPT !.scopeSelections[Split(item)[1]] = Split(item)[2]])
    /\ handleParamUpdate([NoDetail EXCEPT
           !.scope = Some(ToggledScopes(messages[m].context, item)), !.partial = TRUE])

\* ParameterSelector.svelte:136-138
confirmScope(m) ==
    /\ isMissingScope(m)
    /\ handleParamUpdate([NoDetail EXCEPT !.confirm_scope = TRUE])

\* uiConfig.scope_options.categories (part_002:72)
AllCats == <<"org", "tool">>

\* part_002:13  dynamicValues = {}
NoValues == [c \in SeqToSet(AllCats) |-> Nothing]

\* no scope selector is on the page
SelectorIdle ==
    /\ kpiProp = None /\ allowedCategories = <<>> /\ initialSelection = <<>>
    /\ selectedScopes = <<>> /\ uiConfig = FALSE /\ visibleCategories = <<>>
    /\ openDropdown = None /\ dynamicValues = NoValues /\ loadingType = None
    /\ fetchesOut = {}
    /\ onSelected = Nothing

NormInit ==
    /\ ChatInit
    /\ nIn \in NormInputs /\ nOut = Pending /\ nAgain = <<>>
    /\ now = [year |-> 2024, month |-> 1] /\ timeVal = NoShortcut
    /\ selectors = NoSelectors
    /\ dlIn = NoLinkInput /\ dlOut = <<>>
    /\ SelectorIdle

\* ChatBubble renders a context footer: formatTimeRange(message.context.time_range)
Format ==
    /\ nOut = Pending
    /\ nOut' = formatTimeRange(Raw(nIn))
    /\ UNCHANGED <<nIn, nAgain, chatVars, clockVars, linkVars, catalogVars, selectorVars>>

\* how often the footer is rendered again from a range already formatted
MaxAgain == 2

\* the range shown is fed to formatTimeRange again
FormatAgain ==
    /\ nOut # Pending
    /\ Len(nAgain) < MaxAgain
    /\ nAgain' = Append(nAgain, formatTimeRange(IF nAgain = <<>> THEN nOut ELSE nAgain[Len(nAgain)]))
    /\ UNCHANGED <<nIn, nOut, chatVars, clockVars, linkVars, catalogVars, selectorVars>>

Next ==
    \/ \E text \in Typed : TypeInput(text)
    \/ PressEnter
    \/ ClickSend
    \/ \E text \in QuickTexts : QuickSuggestion(text)
    \/ \E t \in TurnIds : \E r \in analyzeQuery : AnalyzeReturn(t, r)
    \/ \E t \in TurnIds : \E res \in generateAndExecuteSQL : SqlReturn(t, res)
    \/ resetChat
    \/ \E m \in DOMAIN messages : \E k \in Kpis : selectKpi(m, k)
    \/ \E m \in DOMAIN messages : \E v \in TimeRanges : selectTime(m, v)
    \/ \E m \in DOMAIN messages : \E item \in ScopeItems : selectScope(m, item)
    \/ \E m \in DOMAIN messages : confirmScope(m)

Init ==
    /\ ChatInit
    /\ nIn = NoParts /\ nOut = Pending /\ nAgain = <<>>
    /\ now = [year |-> 2024, month |-> 1] /\ timeVal = NoShortcut
    /\ selectors = NoSelectors
    /\ dlIn = NoLinkInput /\ dlOut = <<>>
    /\ SelectorIdle

\* the chat page
Spec == Init /\ [][Next]_vars

NormNext == Format \/ FormatAgain

TimeInit ==
    /\ ChatInit
    /\ nIn = NoParts /\ nOut = Pending /\ nAgain = <<>>
    /\ now \in Dates /\ timeVal = NoShortcut
    /\ selectors = NoSelectors
    /\ dlIn = NoLinkInput /\ dlOut = <<>>
    /\ SelectorIdle

TimeNext ==
    \/ \E text \in QuickTexts : QuickSuggestion(text)
    \/ \E t \in TurnIds : \E r \in analyzeQuery : AnalyzeReturn(t, r)
    \/ \E m \in DOMAIN messages : \E type \in {"fy", "half"} : selectTimeNow(m, type)

(***************************************************************************)
(* The Slot Resolver behind POST /bottun/chat/analyze is not among the     *)
(* sources; `resolve` is its algorithm as the specification gives it       *)
(* (section 4.2, steps 1, 4, 5 and 6), for a KPI that requires a time      *)
(* range and the scope category "org".                                     *)
(***************************************************************************)

\* what the extractor may find in an utterance: each field present or absent
Extractions ==
    [kpi : {None} \cup Kpis, time_range : {None} \cup TimeRanges,
     scope : {Nothing, Some(<<"org:A">>)}]

\* step 4: union in order of first appearance, exact duplicates removed
RECURSIVE Union(_, _)
Union(q, more) ==
    IF more = <<>> THEN q
    ELSE Union(IF Includes(q, Head(more)) THEN q ELSE Append(q, Head(more)), Tail(more))

resolve(prior, ex) ==
    LET kpi == IF ex.kpi # None THEN ex.kpi ELSE prior.kpi
        time_range == IF ex.time_range # None THEN ex.time_range ELSE prior.time_range
        scope == Union(OrEmpty(prior.scope), OrEmpty(ex.scope))
        needScope == kpi # None /\ time_range # None /\ scope = <<>>
        missing == (IF kpi = None THEN <<"kpi">> ELSE <<>>)
                   \o (IF time_range = None THEN <<"time_range">> ELSE <<>>)
                   \o (IF needScope THEN <<"scope">> ELSE <<>>)
    IN  Body(kpi, time_range, Some(scope), Some(missing),
             Some(IF needScope THEN <<"org">> ELSE <<>>), missing = <<>>)

\* the outcomes of analyzeQuery(token, content, context) against that resolver
resolveOutcomes(context) ==
    { [kind |-> "ok", body |-> resolve(context, ex)] : ex \in Extractions }
    \cup { [kind |-> "null", body |-> NoAnalysis], [kind |-> "throw", body |-> NoAnalysis] }

\* ParameterSelector.svelte:82-83: the current-selection hint of a values request
currentSelectionsList(sel) ==
    {ScopeStr(c, sel.scopeSelections[c]) : c \in {k \in Categories : sel.scopeSelections[k] # None}}

\* ParameterSelector.svelte:78-90: loadScopeOptions up to the request; hasToken is whether
\* localStorage holds a token at that moment
loadScopeOptions(m, sel, category, hasToken) ==
    IF ~HasKpi(messages[m].context) THEN sel
    ELSE IF ~hasToken THEN [sel EXCEPT !.loadingScope = category]
    ELSE [sel EXCEPT !.loadingScope = category,
                     !.pending = @ \cup {[category |-> category,
                                          kpi |-> messages[m].context.kpi,
                                          current_selection |-> currentSelectionsList(sel)]}]

\* the requests for values that are out
PendingRequests == UNION {selectors[m].pending : m \in DOMAIN selectors}

\* how many requests for values are out at a time
MaxPending == 1

\* ParameterSelector.svelte:100-107: a click on a category of message m's selector
toggleScopeDropdown(m, category, hasToken) ==
    /\ isMissingScope(m)
    /\ \/ Sel(m).showScopeDropdown = category
       \/ ~HasKpi(messages[m].context)
       \/ ~hasToken
       \/ Cardinality(PendingRequests) < MaxPending
    /\ selectors' = WithSel(m,
           IF Sel(m).showScopeDropdown = category
           THEN [Sel(m) EXCEPT !.showScopeDropdown = None]
           ELSE loadScopeOptions(m, [Sel(m) EXCEPT !.showScopeDropdown = category],
                                 category, hasToken))
    /\ UNCHANGED <<chatVars, normVars, clockVars, linkVars, selectorVars>>

\* ParameterSelector.svelte:243: a click on the backdrop of the open dropdown
CloseScopeDropdown(m) ==
    /\ isMissingScope(m)
    /\ Sel(m).showScopeDropdown # None
    /\ selectors' = WithSel(m, [Sel(m) EXCEPT !.showScopeDropdown = None])
    /\ UNCHANGED <<chatVars, normVars, clockVars, linkVars, selectorVars>>

\* the outcomes of `await getDimensionValues(..)` (part_001:31-67): the values, null for a
\* failure without a detail, a throw for an error response with one
getDimensionValues == {"ok", "null", "throw"}

\* ParameterSelector.svelte:90-97: the request req of message m's selector is answered; a
\* throw leaves the function at line 90
DimensionValuesReturn(m, req, kind) ==
    /\ m \in DOMAIN selectors
    /\ req \in selectors[m].pending
    /\ selectors' = WithSel(m,
           LET sel == [selectors[m] EXCEPT !.pending = @ \ {req}]
           IN  IF kind = "throw" THEN sel
               ELSE IF kind = "null" THEN [sel EXCEPT !.loadingScope = None]
               ELSE [sel EXCEPT !.loadingScope = None,
                                !.scopeOptions[req.category] =
                                    Some([kpi |-> req.kpi,
                                          current_selection |-> req.current_selection])])
    /\ UNCHANGED <<chatVars, normVars, clockVars, linkVars, selectorVars>>

ResolvedNext ==
    \/ \E text \in Typed : TypeInput(text)
    \/ PressEnter
    \/ ClickSend
    \/ \E text \in QuickTexts : QuickSuggestion(text)
    \/ \E t \in TurnIds : \E r \in resolveOutcomes(turns[t].sent) : AnalyzeReturn(t, r)
    \/ \E t \in TurnIds : \E res \in generateAndExecuteSQL : SqlReturn(t, res)
    \/ resetChat
    \/ \E m \in DOMAIN messages : \E k \in Kpis : selectKpi(m, k)
    \/ \E m \in DOMAIN messages : \E v \in TimeRanges : selectTime(m, v)
    \/ \E m \in DOMAIN messages : \E item \in ScopeItems : selectScope(m, item)
    \/ \E m \in DOMAIN messages : confirmScope(m)
    \/ \E m \in DOMAIN messages : \E c \in Categories : \E hasToken \in BOOLEAN :
           toggleScopeDropdown(m, c, hasToken)
    \/ \E m \in DOMAIN selectors : \E req \in selectors[m].pending :
           \E kind \in getDimensionValues : DimensionValuesReturn(m, req, kind)

\* the chat page against a resolver that follows its specification
SpecResolved == Init /\ [][ResolvedNext]_vars

(***************************************************************************)
(* The scope selector of part_002.  Its parent is not among the sources:   *)
(* the props it is given at construction and the later changes of `kpi`    *)
(* and `allowedCategories` are inputs.  A `$:` statement runs again when a *)
(* variable it reads has been assigned.                                    *)
(***************************************************************************)

\* the kpis the parent passes as `kpi`
SelectorKpis == {"headcount", "tool_usage"}

\* what the parent passes as `allowedCategories`
AllowedProps == {<<>>, <<"org">>}

\* uiConfig.kpi_levels.level2_mapping[..].allowed_scopes of a kpi (part_002:62-63)
AllowedScopesOf(k) == IF k = "headcount" THEN <<"org">> ELSE <<"org", "tool">>

\* the values POST /bottun/config/dimension returns for a category (part_002:91-102)
CatalogValues(dimensionType) == IF dimensionType = "org" THEN {"A"} ELSE {"X"}

\* part_002:56-68
getAllowedScopesFromUIConfig(cfg, k) ==
    IF ~cfg \/ k = None THEN <<>> ELSE AllowedScopesOf(k)

\* part_002:73-76: the categories the selector takes as allowed
AllowedNow(cfg, allowedCats, k) ==
    IF allowedCats # <<>> THEN allowedCats ELSE getAllowedScopesFromUIConfig(cfg, k)

\* part_002:70-78: the new value of visibleCategories (only the list of category buttons)
updateVisibleCategories(cfg, allowedCats, k, visible) ==
    IF ~cfg THEN visible
    ELSE LET allowed == AllowedNow(cfg, allowedCats, k)
         IN  IF allowed # <<>> THEN SelectSeq(AllCats, LAMBDA cat : Includes(allowed, cat))
             ELSE AllCats

\* part_002:27-34 the configuration arrives: line 33, and the statement of lines 52-54
ConfigInitReturn ==
    /\ kpiProp # None
    /\ ~uiConfig
    /\ uiConfig' = TRUE
    /\ visibleCategories' =
           updateVisibleCategories(TRUE, allowedCategories, kpiProp, visibleCategories)
    /\ UNCHANGED <<kpiProp, allowedCategories, initialSelection, selectedScopes,
                   openDropdown, dynamicValues, loadingType, fetchesOut, onSelected>>
    /\ UNCHANGED <<chatVars, normVars, clockVars, linkVars, catalogVars>>

\* the parent changes `kpi` and `allowedCategories`; the statement of part_002:52-54 runs
\* when allowedCategories was assigned (a new array, `fresh`, even with the same entries):
\* it does not read `kpi`.  Nothing here touches selectedScopes.
SetProps(k, cats, fresh) ==
    /\ kpiProp # None
    /\ k # kpiProp \/ cats # allowedCategories
    /\ kpiProp' = k
    /\ allowedCategories' = cats
    /\ visibleCategories' =
           IF fresh \/ cats # allowedCategories
           THEN updateVisibleCategories(uiConfig, cats, k, visibleCategories)
           ELSE visibleCategories
    /\ UNCHANGED <<initialSelection, selectedScopes, uiConfig, openDropdown,
                   dynamicValues, loadingType, fetchesOut, onSelected>>
    /\ UNCHANGED <<chatVars, normVars, clockVars, linkVars, catalogVars>>

\* part_002:80-98: a click on a category button, up to the request
fetchValues(dimensionType) ==
    /\ Includes(visibleCategories, dimensionType)
    /\ IF openDropdown = dimensionType
       THEN openDropdown' = None /\ UNCHANGED <<loadingType, fetchesOut>>
       ELSE /\ openDropdown' = dimensionType
            /\ IF dynamicValues[dimensionType] # Nothing
               THEN UNCHANGED <<loadingType, fetchesOut>>
               ELSE /\ Cardinality(fetchesOut) < MaxPending
                    /\ loadingType' = dimensionType
                    /\ fetchesOut' = fetchesOut \cup
                           {[dimension_type |-> dimensionType, kpi |-> kpiProp,
                             current_selection |-> selectedScopes]}
    /\ UNCHANGED <<kpiProp, allowedCategories, initialSelection, selectedScopes, uiConfig,
                   visibleCategories, dynamicValues, onSelected>>
    /\ UNCHANGED <<chatVars, normVars, clockVars, linkVars, catalogVars>>

\* part_002:100-108: the values of request req arrive, or the request fails
fetchValuesReturn(req, ok) ==
    /\ req \in fetchesOut
    /\ fetchesOut' = fetchesOut \ {req}
    /\ dynamicValues' =
           IF ok THEN [dynamicValues EXCEPT ![req.dimension_type] =
                           Some([kpi |-> req.kpi, current_selection |-> req.current_selection])]
           ELSE dynamicValues
    /\ loadingType' = None
    /\ UNCHANGED <<kpiProp, allowedCategories, initialSelection, selectedScopes, uiConfig,
                   visibleCategories, openDropdown, onSelected>>
    /\ UNCHANGED <<chatVars, normVars, clockVars, linkVars, catalogVars>>

\* part_002:46-50
handleClickOutside ==
    /\ openDropdown # None
    /\ openDropdown' = None
    /\ UNCHANGED <<kpiProp, allowedCategories, initialSelection, selectedScopes, uiConfig,
                   visibleCategories, dynamicValues, loadingType, fetchesOut, onSelected>>
    /\ UNCHANGED <<chatVars, normVars, clockVars, linkVars, catalogVars>>

\* part_002:113-117 with every click appending
Toggled_AlwaysAppends(scopes, scopeStr) == Append(scopes, scopeStr)

\* part_002:113-117
Toggled(scopes, scopeStr) ==
    IF Includes(scopes, scopeStr) THEN FilterOut(scopes, scopeStr)
    ELSE Append(scopes, scopeStr)

\* part_002:111-118, and the statement of lines 19-21, which reads selectedScopes and so
\* runs after the assignment
toggleScope(category, value) ==
    /\ selectedScopes' =
           LET toggled == Toggled(selectedScopes, ScopeStr(category, value))
           IN  IF initialSelection # <<>> /\ toggled = <<>> THEN initialSelection
               ELSE toggled
    /\ UNCHANGED <<kpiProp, allowedCategories, initialSelection, uiConfig,
                   visibleCategories, openDropdown, dynamicValues, loadingType, fetchesOut, onSelected>>
    /\ UNCHANGED <<chatVars, normVars, clockVars, linkVars, catalogVars>>

\* part_002:171-185: a value button of the open dropdown
ClickValue(category, value) ==
    /\ Includes(visibleCategories, category)
    /\ openDropdown = category
    /\ loadingType # category
    /\ dynamicValues[category] # Nothing
    /\ value \in CatalogValues(category)
    /\ toggleScope(category, value)

\* part_002:213-221: the x of a chip of the summary
ClickChip(s) ==
    /\ Includes(selectedScopes, s)
    /\ toggleScope(Split(s)[1], Split(s)[2])

\* part_002:120-122; the button is there while something is selected (208, 225-230)
confirmSelection ==
    /\ selectedScopes # <<>>
    /\ onSelected' = Some(selectedScopes)
    /\ UNCHANGED <<kpiProp, allowedCategories, initialSelection, selectedScopes, uiConfig,
                   visibleCategories, openDropdown, dynamicValues, loadingType, fetchesOut>>
    /\ UNCHANGED <<chatVars, normVars, clockVars, linkVars, catalogVars>>

\* the selections the parent starts the selector with
InitialSelections == {<<>>, <<"org:A">>, <<"org:A", "org:A">>}

\* the selector after construction: the statement of part_002:19-21 has copied a
\* non-empty initialSelection
ScopeInit ==
    /\ ChatInit
    /\ nIn = NoParts /\ nOut = Pending /\ nAgain = <<>>
    /\ now = [year |-> 2024, month |-> 1] /\ timeVal = NoShortcut
    /\ selectors = NoSelectors
    /\ dlIn = NoLinkInput /\ dlOut = <<>>
    /\ kpiProp \in SelectorKpis /\ allowedCategories \in AllowedProps
    /\ initialSelection \in InitialSelections
    /\ selectedScopes = initialSelection
    /\ uiConfig = FALSE /\ visibleCategories = <<>>
    /\ openDropdown = None /\ dynamicValues = NoValues /\ loadingType = None
    /\ fetchesOut = {}
    /\ onSelected = Nothing

ScopeNext ==
    \/ \E text \in QuickTexts : QuickSuggestion(text)
    \/ \E t \in TurnIds : \E r \in analyzeQuery : AnalyzeReturn(t, r)
    \/ \E m \in DOMAIN messages : \E item \in ScopeItems : selectScope(m, item)
    \/ ConfigInitReturn
    \/ \E k \in SelectorKpis : \E cats \in AllowedProps : \E fresh \in BOOLEAN :
           SetProps(k, cats, fresh)
    \/ \E c \in SeqToSet(AllCats) : fetchValues(c)
    \/ \E req \in fetchesOut : \E ok \in BOOLEAN : fetchValuesReturn(req, ok)
    \/ handleClickOutside
    \/ \E c \in SeqToSet(AllCats) : \E v \in CatalogValues(c) : ClickValue(c, v)
    \/ \E s \in ScopeItems \cup {"tool:X"} : ClickChip(s)
    \/ confirmSelection

\* the scope pickers: the prompt's selector and the scope selector
SpecScope == ScopeInit /\ [][ScopeNext]_vars

\* ParameterSelector.svelte:225-234: an option of the open dropdown of message m's selector
ClickOption(m, category, value) ==
    /\ Sel(m).showScopeDropdown = category
    /\ Sel(m).loadingScope # category
    /\ Sel(m).scopeOptions[category] # Nothing
    /\ selectScope(m, ScopeStr(category, value))

\* the values the catalog offers for a category of a scope prompt
OptionValues(category) == {"A", "B"}

CatalogNext ==
    \/ \E text \in QuickTexts : QuickSuggestion(text)
    \/ \E t \in TurnIds : \E r \in analyzeQuery : AnalyzeReturn(t, r)
    \/ \E m \in DOMAIN messages : \E c \in Categories : \E hasToken \in BOOLEAN :
           toggleScopeDropdown(m, c, hasToken)
    \/ \E m \in DOMAIN messages : CloseScopeDropdown(m)
    \/ \E m \in DOMAIN selectors : \E req \in selectors[m].pending :
           \E kind \in getDimensionValues : DimensionValuesReturn(m, req, kind)
    \/ \E m \in DOMAIN messages : \E c \in Categories : \E v \in OptionValues(c) :
           ClickOption(m, c, v)
    \/ \E m \in DOMAIN messages : confirmScope(m)

\* a scope prompt, its dropdowns and the catalog requests behind them
SpecCatalog == Init /\ [][CatalogNext]_vars

\* some request for values that is out is answered
SomeValuesReturn ==
    \E m \in DOMAIN selectors : \E req \in selectors[m].pending :
        \E kind \in getDimensionValues : DimensionValuesReturn(m, req, kind)

\* SpecCatalog with every request answered in the end (the user's clicks are not forced)
SpecCatalogFair == SpecCatalog /\ WF_vars(SomeValuesReturn)

\* how many scope entries the arguments of getDownloadUrl hold
MaxScope == 2

\* how often getDownloadUrl is called with the same arguments
MaxBuilds == 2

\* the scope lists of up to MaxScope entries, repeated entries included
ScopeLists ==
    UNION {[1..n -> ScopeItems \cup {"tool:X"}] : n \in 0..MaxScope}

\* the arguments getDownloadUrl is called with; an undefined scope among them
LinkInputs ==
    [kpi : Kpis \cup {"tool_usage"}, time_range : TimeRanges \cup {None},
     scope : {Nothing} \cup {Some(q) : q \in ScopeLists}]

\* what a call of getDownloadUrl that throws leaves
Thrown == <<"TypeError">>

LinkInit ==
    /\ ChatInit
    /\ nIn = NoParts /\ nOut = Pending /\ nAgain = <<>>
    /\ now = [year |-> 2024, month |-> 1] /\ timeVal = NoShortcut
    /\ selectors = NoSelectors
    /\ dlIn \in LinkInputs /\ dlOut = <<>>
    /\ SelectorIdle

\* a call getDownloadUrl(kpi, time_range, scope)
BuildLink ==
    /\ Len(dlOut) < MaxBuilds
    /\ dlOut' = Append(dlOut,
           IF getDownloadUrlThrows(dlIn.kpi, dlIn.time_range, dlIn.scope) THEN Thrown
           ELSE getDownloadUrl(dlIn.kpi, dlIn.time_range, dlIn.scope))
    /\ UNCHANGED <<dlIn, chatVars, normVars, clockVars, catalogVars, selectorVars>>

LinkNext == BuildLink

\* getDownloadUrl called on every argument of LinkInputs
SpecLink == LinkInit /\ [][LinkNext]_vars

\* the time shortcuts, clicked on every day of Dates
SpecTime == TimeInit /\ [][TimeNext]_vars

\* formatTimeRange applied to every input of NormInputs
SpecNorm == NormInit /\ [][NormNext]_vars


(***************************************************************************)
(* The dialogue's properties.                                              *)
(***************************************************************************)

InFlight == {t \in TurnIds : turns[t].pc \in {"analyze", "sql"}}

LastMsg(q) == q[Len(q)]

\* C1: a resolution turn whose result carries no value for kpi, time_range or scope
\* leaves that field of the Dialogue Context as it was before the turn.
C1_AbsentFieldKeepsPrior ==
    [][\A t \in TurnIds : \A r \in analyzeQuery :
          (AnalyzeReturn(t, r) /\ r.kind = "ok") =>
              /\ (r.body.kpi = None => currentContext'.kpi = currentContext.kpi)
              /\ (r.body.time_range = None =>
                      currentContext'.time_range = currentContext.time_range)
              /\ (r.body.scope = Nothing => currentContext'.scope = currentContext.scope)]_vars

\* C2: at most one turn has an analyze or SQL request in flight.
C2_OneTurnInFlight == Cardinality(InFlight) <= 1

\* C3: with the scope prompt the newest message and no turn in flight (so only toggles
\* have changed the context since the prompt), toggling on an entry the context's scope
\* does not hold appends it and keeps the entries toggled on before it; and the entries
\* toggled on while the only turn was in flight are in the context when it completes.
C3_TogglesAccumulate ==
    [][/\ \A m \in DOMAIN messages : \A item \in ScopeItems :
            ( /\ selectScope(m, item)
              /\ m = Len(messages)
              /\ InFlight = {}
              /\ ~Includes(OrEmpty(currentContext.scope), item) ) =>
                currentContext'.scope = Some(Append(OrEmpty(currentContext.scope), item))
       /\ \A t \in TurnIds : \A r \in analyzeQuery :
            (AnalyzeReturn(t, r) /\ r.kind = "ok" /\ InFlight = {t}) =>
                \A e \in SeqToSet(OrEmpty(currentContext.scope))
                            \ SeqToSet(OrEmpty(turns[t].sent.scope)) :
                    Includes(OrEmpty(currentContext'.scope), e)]_vars

\* an outcome's missing_params names a slot
NamesMissing(body) == body.missing_params \notin {Nothing, Some(<<>>)}

\* C4: a turn whose outcome has a non-empty missing_params sends no SQL request and
\* ends with a prompt that carries those missing_params, the missing_scope_categories
\* and the updated context.
C4_MissingNeverDispatches ==
    [][\A t \in TurnIds : \A r \in analyzeQuery :
          (AnalyzeReturn(t, r) /\ r.kind = "ok" /\ NamesMissing(r.body)) =>
              /\ turns'[t].pc = "done"
              /\ Len(messages') = Len(messages) + 1
              /\ LastMsg(messages').kind = "prompt"
              /\ LastMsg(messages').missingParams = r.body.missing_params
              /\ LastMsg(messages').missingScopeCategories = r.body.missing_scope_categories
              /\ LastMsg(messages').context = currentContext'
              /\ currentContext'.kpi = r.body.kpi
              /\ currentContext'.time_range = r.body.time_range
              /\ currentContext'.scope = r.body.scope]_vars

\* C4's case: a prompt for missing slots is the newest message and nothing is in flight
C4_Witness ==
    /\ InFlight = {}
    /\ nTurns > 0
    /\ LastMsg(messages).kind = "prompt"
    /\ LastMsg(messages).missingParams = Some(<<"time_range", "scope">>)
    /\ LastMsg(messages).missingScopeCategories = Some(<<"org">>)
    /\ LastMsg(messages).context = currentContext

\* C5 as stated: every turn whose outcome has an empty missing_params goes on to the
\* SQL request.
C5_EmptyMissingProceeds ==
    [][\A t \in TurnIds : \A r \in analyzeQuery :
          (AnalyzeReturn(t, r) /\ r.kind = "ok" /\ ~NamesMissing(r.body)) =>
              turns'[t].pc = "sql"]_vars

\* C5 as amended: a turn whose outcome has an empty missing_params goes on to the SQL
\* request exactly when the outcome's finished_selection is set; when it is not, the
\* turn ends with the "conditions updated" message and no SQL request.
C5_FinishedSelectionProceeds ==
    [][\A t \in TurnIds : \A r \in analyzeQuery :
          (AnalyzeReturn(t, r) /\ r.kind = "ok" /\ ~NamesMissing(r.body)) =>
              IF r.body.finished_selection
              THEN /\ turns'[t].pc = "sql"
                   /\ LastMsg(messages').kind = "generating"
              ELSE /\ turns'[t].pc = "done"
                   /\ LastMsg(messages').kind = "updated"
                   /\ LastMsg(messages').context = currentContext']_vars

\* C5's two cases: a turn waits for its SQL answer; a turn ended with "conditions updated"
C5_Witness ==
    \/ \E t \in TurnIds :
          /\ turns[t].pc = "sql"
          /\ turns[t].analysis.missing_params = Some(<<>>)
          /\ turns[t].analysis.finished_selection
    \/ /\ InFlight = {}
       /\ LastMsg(messages).kind = "updated"
       /\ currentContext.missing_params = Some(<<>>)

\* C6: the kpi, time_range and scope of a turn's SQL request are those of the outcome
\* the turn received, whatever happens to the context while the request is in flight.
C6_DispatchesTheOutcome ==
    \A t \in TurnIds :
        turns[t].pc = "sql" =>
            /\ turns[t].sql.kpi = turns[t].analysis.kpi
            /\ turns[t].sql.time_range = turns[t].analysis.time_range
            /\ turns[t].sql.scope = turns[t].analysis.scope

\* C6's case: a SQL request is in flight and the context has since been reset
C6_Witness ==
    \E t \in TurnIds :
        /\ turns[t].pc = "sql"
        /\ turns[t].sql.kpi = "headcount"
        /\ turns[t].sql.scope = Some(<<"org:A">>)
        /\ currentContext = EmptyContext


(***************************************************************************)
(* formatTimeRange's properties (under SpecNorm).                          *)
(***************************************************************************)

Formatted == nOut # Pending

\* the first-half, second-half and quarter tags, in either letter case
TagIn(tags) == ToUpperCase(nIn.tag) \in tags

FirstHalf == {<<"1", "H">>, <<"H", "1">>, <<"U4E0A", "U534A", "U671F">>}

SecondHalf == {<<"2", "H">>, <<"H", "2">>, <<"U4E0B", "U534A", "U671F">>}

\* the end year as the claims read it: a 2-digit year is 2000+Y, a 4-digit year is Y
EndYearAsWritten(y) == IF Len(y) = 2 THEN 2000 + ParseInt(y) ELSE ParseInt(y)

\* the range S<m1>-E<m2> of the claims, for start year e-1 or end year e
YearText(y) == IF y < 0 THEN <<"-">> \o NumToStr(0 - y) ELSE NumToStr(y)

Range(y1, m1, y2, m2) == YearText(y1) \o m1 \o <<"-">> \o YearText(y2) \o m2

HalfRange(e) ==
    IF nIn.tag = <<>> THEN Range(e - 1, <<"0", "4">>, e, <<"0", "3">>)
    ELSE IF TagIn(FirstHalf) THEN Range(e - 1, <<"0", "4">>, e - 1, <<"0", "9">>)
    ELSE Range(e - 1, <<"1", "0">>, e, <<"0", "3">>)

QuarterRange(e) ==
    IF TagIn({<<"Q", "1">>}) THEN Range(e - 1, <<"0", "4">>, e - 1, <<"0", "6">>)
    ELSE IF TagIn({<<"Q", "2">>}) THEN Range(e - 1, <<"0", "7">>, e - 1, <<"0", "9">>)
    ELSE IF TagIn({<<"Q", "3">>}) THEN Range(e - 1, <<"1", "0">>, e - 1, <<"1", "2">>)
    ELSE Range(e, <<"0", "1">>, e, <<"0", "3">>)

IsHalfInput == nIn.form = "fy" /\ (nIn.tag = <<>> \/ TagIn(FirstHalf \cup SecondHalf))

IsQuarterInput ==
    nIn.form = "fy" /\ TagIn({<<"Q", "1">>, <<"Q", "2">>, <<"Q", "3">>, <<"Q", "4">>})

\* C7: FY<Y> with no tag gives S04-E03, with a first-half tag S04-S09 and with a
\* second-half tag S10-E03, where the end year E is 2000+Y for a 2-digit Y and Y for a
\* 4-digit Y, and S = E-1.
C7_HalvesAsWritten ==
    (Formatted /\ IsHalfInput) => nOut = HalfRange(EndYearAsWritten(nIn.year))

\* C8: FY<Y> Qn gives S04-S06, S07-S09, S10-S12 and E01-E03 for n = 1..4, where E is the
\* end year FY<Y> names and S = E-1.
C8_QuartersAsWritten ==
    (Formatted /\ IsQuarterInput) => nOut = QuarterRange(EndYearAsWritten(nIn.year))

Prefix20(x) == x[1] = "2" /\ x[2] = "0"

Bare == nIn.lead = <<>> /\ nIn.trail = <<>>

\* C9 as stated: a YYYYMM-YYYYMM with year prefix 20 is returned unchanged, a bare
\* YYYYMM gives YYYYMM-YYYYMM, a bare YYYY with prefix 20 gives YYYY01-YYYY12.
C9_PlainFormsAsStated ==
    (Formatted /\ Bare) =>
        /\ (nIn.form = "range" /\ Prefix20(nIn.a) /\ Prefix20(nIn.b)) => nOut = Raw(nIn)
        /\ (nIn.form = "month") => nOut = nIn.a \o <<"-">> \o nIn.a
        /\ (nIn.form = "year" /\ Prefix20(nIn.a)) =>
               nOut = nIn.a \o <<"0", "1", "-">> \o nIn.a \o <<"1", "2">>

\* C9 as amended: the bare YYYYMM form, too, is recognised only with year prefix 20.
C9_PlainFormsPrefix20 ==
    (Formatted /\ Bare) =>
        /\ (nIn.form = "range" /\ Prefix20(nIn.a) /\ Prefix20(nIn.b)) => nOut = Raw(nIn)
        /\ (nIn.form = "month" /\ Prefix20(nIn.a)) => nOut = nIn.a \o <<"-">> \o nIn.a
        /\ (nIn.form = "year" /\ Prefix20(nIn.a)) =>
               nOut = nIn.a \o <<"0", "1", "-">> \o nIn.a \o <<"1", "2">>

\* C9's case: "202401" gives "202401-202401"
C9_Witness ==
    /\ nIn.form = "month"
    /\ Raw(nIn) = <<"2", "0", "2", "4", "0", "1">>
    /\ nOut = <<"2", "0", "2", "4", "0", "1", "-", "2", "0", "2", "4", "0", "1">>

\* an input of none of the forms the claims recognise
UnrecognisedAsStated ==
    \/ nIn.form = "other"
    \/ nIn.form = "range" /\ ~(Prefix20(nIn.a) /\ Prefix20(nIn.b))
    \/ nIn.form = "year" /\ ~Prefix20(nIn.a)

\* an input of none of the forms the code recognises
Unrecognised == UnrecognisedAsStated \/ (nIn.form = "month" /\ ~Prefix20(nIn.a))

\* C10 as stated: an input of no recognised form is returned character for character.
C10_OtherUnmodified == (Formatted /\ UnrecognisedAsStated) => nOut = Raw(nIn)

\* out is raw without the white space at its two ends
IsTrimOf(out, raw) ==
    /\ out = <<>> \/ (~IsSpace(out[1]) /\ ~IsSpace(out[Len(out)]))
    /\ \E i \in 0..Len(raw) :
          /\ i + Len(out) <= Len(raw)
          /\ out = SubSeq(raw, i + 1, i + Len(out))
          /\ \A k \in 1..Len(raw) : (k <= i \/ k > i + Len(out)) => IsSpace(raw[k])

\* C10 as amended: an input of no recognised form is returned with the white space at
\* its two ends removed and otherwise character for character.
C10_OtherTrimmed == (Formatted /\ Unrecognised) => IsTrimOf(nOut, Raw(nIn))

\* C10's case: " x x" gives "x x"
C10_Witness ==
    /\ nIn.form = "other"
    /\ Raw(nIn) = <<" ", "x", " ", "x">>
    /\ nOut = <<"x", " ", "x">>


\* a YYYYMM text as a count of months: 12 * year + month
MonthIndex(ym) ==
    12 * ParseInt(SubSeq(ym, 1, Len(ym) - 2)) + ParseInt(SubSeq(ym, Len(ym) - 1, Len(ym)))

DashAt(r) == CHOOSE i \in 1..Len(r) : r[i] = "-"

RangeStart(r) == MonthIndex(SubSeq(r, 1, DashAt(r) - 1))

RangeEnd(r) == MonthIndex(SubSeq(r, DashAt(r) + 1, Len(r)))

\* C11: for every fiscal expression FY<Y> with or without a half or quarter tag, the
\* range produced has start <= end, and its start month and end month both lie in the
\* fiscal year labelled Y: April of E-1 through March of E, where E is 2000+Y for a
\* 2-digit Y and Y for a 4-digit Y.
C11_InsideFiscalYear ==
    (Formatted /\ nIn.form = "fy") =>
        LET e == EndYearAsWritten(nIn.year)
            first == 12 * (e - 1) + 4
            last == 12 * e + 3
        IN  /\ RangeStart(nOut) <= RangeEnd(nOut)
            /\ first <= RangeStart(nOut) /\ RangeStart(nOut) <= last
            /\ first <= RangeEnd(nOut) /\ RangeEnd(nOut) <= last


\* an input of one of the recognised forms
Recognised == ~Unrecognised

\* C12: formatting is idempotent: for every recognised input x (an already-canonical
\* range among them), formatting the result again, once or twice, returns the result
\* of the first formatting.
C12_Idempotent ==
    Recognised => \A i \in 1..Len(nAgain) : nAgain[i] = nOut

\* C12's case: "FY25 H2" gave "202410-202503", which formatted twice more is itself
C12_Witness ==
    /\ Raw(nIn) = <<"F", "Y", "2", "5", " ", "H", "2">>
    /\ nOut = <<"2", "0", "2", "4", "1", "0", "-", "2", "0", "2", "5", "0", "3">>
    /\ Len(nAgain) = 2
    /\ nAgain[2] = nOut


\* C13: a range the normalizer passes through as canonical (YYYYMM-YYYYMM, year prefix
\* 20) is a YYYYMM-YYYYMM string whose start month is not after its end month.
C13_CanonicalIsOrdered ==
    (Formatted /\ nIn.form = "range" /\ Prefix20(nIn.a) /\ Prefix20(nIn.b)) =>
        /\ IsRange20(nOut)
        /\ RangeStart(nOut) <= RangeEnd(nOut)


(***************************************************************************)
(* The time shortcuts' properties (under SpecTime).                        *)
(***************************************************************************)

\* the fiscal year's start year on the day `now`
StartYearToday == IF now.month >= 4 THEN now.year ELSE now.year - 1

ThisMonth == 12 * now.year + now.month

\* C14: on every date, 'this fiscal year' emits S04-(S+1)03, where S is the current
\* year if the month is April or later and the year before otherwise, and 'this half'
\* emits S04-S09 in April..September and S10-(S+1)03 otherwise; the range emitted
\* contains the current month.
C14_ShortcutsHoldToday ==
    LET S == StartYearToday
    IN  /\ timeVal.type = "fy" =>
               timeVal.val = Range(S, <<"0", "4">>, S + 1, <<"0", "3">>)
        /\ timeVal.type = "half" =>
               timeVal.val = IF now.month \in 4..9
                             THEN Range(S, <<"0", "4">>, S, <<"0", "9">>)
                             ELSE Range(S, <<"1", "0">>, S + 1, <<"0", "3">>)
        /\ timeVal.type # "none" =>
               /\ RangeStart(timeVal.val) <= ThisMonth
               /\ ThisMonth <= RangeEnd(timeVal.val)

\* C14's case: in March 2025 'this half' is sent as "202410-202503"
C14_Witness ==
    /\ now = [year |-> 2025, month |-> 3]
    /\ timeVal.type = "half"
    /\ timeVal.val = <<"2", "0", "2", "4", "1", "0", "-", "2", "0", "2", "5", "0", "3">>
    /\ turns[nTurns].pc = "analyze"
    /\ turns[nTurns].content = <<"time", timeVal.val>>


(***************************************************************************)
(* The prompts' properties (under Spec).                                   *)
(***************************************************************************)

\* the slot a prompt's text asks for
AskedSlot(msg) == msg.content[2]

ScopePickerOffered == \E m \in DOMAIN messages : isMissingScope(m)

\* C16: missing_params holds 'scope' only if the Dialogue Context's kpi and time_range
\* are both present; while the Dialogue Context has no kpi no scope picker is on offer
\* and no request for a category's values is issued.
C16_ScopeNeedsKpi ==
    [][ /\ Includes(OrEmpty(currentContext.missing_params'), "scope") =>
              (currentContext.kpi' # None /\ currentContext.time_range' # None)
        /\ ScopePickerOffered' => currentContext.kpi' # None
        /\ PendingRequests' \ PendingRequests # {} => currentContext.kpi # None
      ]_vars


(***************************************************************************)
(* The scope selection's properties (under Spec).                          *)
(***************************************************************************)

\* a step that starts the turn of a confirm-selection signal
ConfirmStarts ==
    /\ nTurns' = nTurns + 1
    /\ turns'[nTurns'].content = <<"confirm">>

\* C17: a confirm-selection signal starts exactly one resolution, against the Dialogue
\* Context as it is (the scope the toggles left in it included); it appends no message
\* to the transcript and changes no field of the context.
C17_ConfirmResolvesCurrent ==
    [][ ConfirmStarts =>
          /\ turns'[nTurns'].pc = "analyze"
          /\ turns'[nTurns'].sent = currentContext
          /\ \A t \in TurnIds : t # nTurns' => turns'[t] = turns[t]
          /\ messages' = messages
          /\ currentContext' = currentContext
      ]_vars

\* C17's case: org:A was toggled on and the confirm sends the context that holds it
C17_Witness ==
    /\ nTurns >= 2
    /\ turns[nTurns].pc = "analyze"
    /\ turns[nTurns].content = <<"confirm">>
    /\ turns[nTurns].sent.scope = Some(<<"org:A">>)
    /\ currentContext.scope = Some(<<"org:A">>)
    /\ LastMsg(messages).kind = "prompt"


\* a step in which the user toggles an entry of a scope prompt
ToggleStep == \E m \in DOMAIN messages : \E item \in ScopeItems : selectScope(m, item)

\* C18: a scope toggle changes only the scope field of the Dialogue Context: kpi and
\* time_range stay, no resolver or dispatcher call starts, and no message is appended.
C18_ToggleIsLocal ==
    [][ ToggleStep =>
          /\ currentContext.kpi' = currentContext.kpi
          /\ currentContext.time_range' = currentContext.time_range
          /\ currentContext.missing_params' = currentContext.missing_params
          /\ turns' = turns /\ nTurns' = nTurns /\ isLoading' = isLoading
          /\ messages' = messages
      ]_vars

\* C18's case: a toggle put org:B into the context of a prompt that was issued without it
C18_Witness ==
    /\ InFlight = {}
    /\ LastMsg(messages).kind = "prompt"
    /\ LastMsg(messages).context.scope = Some(<<>>)
    /\ currentContext.scope = Some(<<"org:B">>)
    /\ currentContext.kpi = LastMsg(messages).context.kpi
    /\ currentContext.kpi = "headcount"


\* the list names no entry twice
NoDup(q) == \A i, j \in 1..Len(q) : q[i] = q[j] => i = j

\* C19: toggling keeps a scope list free of duplicates: the Dialogue Context's scope (the
\* backend's lists are duplicate-free) and, when the selector starts from a duplicate-free
\* initialSelection, its selectedScopes and whatever it hands to onSelect.
C19_NoDuplicateEntries ==
    /\ NoDup(OrEmpty(currentContext.scope))
    /\ NoDup(initialSelection) => NoDup(selectedScopes) /\ NoDup(OrEmpty(onSelected))

\* C19's case: toggles have built a list of two entries in the selector and put a second
\* entry into the context
C19_Witness ==
    /\ initialSelection = <<>>
    /\ Len(selectedScopes) = 2
    /\ onSelected # Nothing
    /\ Len(OrEmpty(currentContext.scope)) = 2


\* the category of every entry of the list is among `allowed`
CategoriesWithin(q, allowed) == \A i \in 1..Len(q) : Includes(allowed, Split(q[i])[1])

\* C20: every scope entry held in the selector's selection or in the Dialogue Context has
\* a category allowed for the current kpi (so a change of kpi has dropped the entries of
\* the categories it excludes by the time the selection can be confirmed).
C20_AllowedCategoriesOnly ==
    /\ kpiProp # None =>
           CategoriesWithin(selectedScopes, AllowedNow(TRUE, allowedCategories, kpiProp))
    /\ currentContext.kpi # None =>
           CategoriesWithin(OrEmpty(currentContext.scope), AllowedScopesOf(currentContext.kpi))


(***************************************************************************)
(* The catalog requests of a scope prompt (under SpecCatalog).             *)
(***************************************************************************)

\* the requests for values a step sends
RequestsSent == PendingRequests' \ PendingRequests

\* C21: every request for a category's values carries as its current-selection hint
\* exactly the scope entries selected in the conversation at that moment: each entry of
\* the Dialogue Context's scope and no entry that has been toggled off.
C21_HintIsTheSelection ==
    [][ \A req \in RequestsSent :
            req.current_selection = SeqToSet(OrEmpty(currentContext.scope)) ]_vars


\* the transcript never grows beyond this: the greeting and three entries a turn
MaxMessages == 3 * MaxTurns + 1

\* C23: a load of scope options never hangs: once its catalog call has succeeded, failed
\* or been skipped for want of a token, the category's loading indicator is cleared in the
\* end; a failed call adds no scope entry; and opening the dropdown again sends a new
\* request.
C23_LoadNeverHangs ==
    /\ \A m \in 1..MaxMessages : \A c \in Categories :
           (Sel(m).loadingScope = c) ~> (Sel(m).loadingScope # c)
    /\ [][ /\ \A m \in DOMAIN selectors : \A req \in selectors[m].pending :
                \A kind \in {"null", "throw"} :
                    DimensionValuesReturn(m, req, kind) =>
                        /\ currentContext' = currentContext
                        /\ Sel(m).scopeSelections' = Sel(m).scopeSelections
           /\ \A m \in DOMAIN messages : \A c \in Categories :
                (/\ toggleScopeDropdown(m, c, TRUE)
                 /\ Sel(m).showScopeDropdown # c
                 /\ HasKpi(messages[m].context)) => RequestsSent # {}
         ]_vars

(***************************************************************************)
(* The scope selector's option lists (under SpecScope).                    *)
(***************************************************************************)

\* the category whose option values the selector shows (part_002:156-191)
OptionsShown(c) == openDropdown = c /\ loadingType # c /\ dynamicValues[c] # Nothing

\* C22: the option values shown for the category of the open dropdown come from a
\* catalog query made for the current kpi and the current selection.
C22_OptionsAreCurrent ==
    \A c \in SeqToSet(AllCats) :
        OptionsShown(c) =>
            dynamicValues[c] = Some([kpi |-> kpiProp, current_selection |-> selectedScopes])


(***************************************************************************)
(* Failures (under Spec).                                                  *)
(***************************************************************************)

\* the kinds of transcript entry that answer a turn
ReplyKinds == {"prompt", "updated", "result", "failed", "error"}

\* C24: a turn whose analyze call fails, by an error response with a detail (a throw) or
\* by a transport failure (null), ends with an error message appended to the transcript;
\* and every turn that ends leaves exactly one reply: one entry more when it ends at the
\* analyze answer, the placeholder replaced by the reply when it ends at the SQL answer.
C24_NoTurnDropped ==
    [][ /\ \A t \in TurnIds : \A r \in analyzeQuery :
             (AnalyzeReturn(t, r) /\ r.kind \in {"null", "throw"}) =>
                 /\ Len(messages') = Len(messages) + 1
                 /\ LastMsg(messages').kind = "error"
                 /\ LastMsg(messages').error
        /\ \A t \in TurnIds :
             (turns[t].pc = "analyze" /\ turns'[t].pc = "done") =>
                 /\ Len(messages') = Len(messages) + 1
                 /\ LastMsg(messages').kind \in ReplyKinds
        /\ \A t \in TurnIds :
             (turns[t].pc = "sql" /\ turns'[t].pc = "done") =>
                 /\ Len(messages') = Len(messages)
                 /\ LastMsg(messages').kind \in ReplyKinds
                 /\ \A i \in 1..(Len(messages) - 1) : messages'[i] = messages[i]
      ]_vars


\* a Dialogue Context whose fields are absent or of their kind
WellFormed(ctx) ==
    /\ ctx.kpi \in Kpis \cup {None}
    /\ ctx.time_range \in TimeRanges \cup {None}
    /\ ctx.scope # Nothing => SeqToSet(ctx.scope[1]) \subseteq ScopeItems
    /\ ctx.missing_params # Nothing =>
           SeqToSet(ctx.missing_params[1]) \subseteq {"kpi", "time_range", "scope"}

\* C25: an error leaves the conversation resumable: the failing answer of an analyze call
\* leaves the Dialogue Context as it was; after a failed turn (analyze or execution)
\* isLoading is false and the context is well formed; and a turn that starts is resolved
\* against the context of that moment.
C25_ErrorsLeaveResumable ==
    [][ /\ \A t \in TurnIds : \A r \in analyzeQuery :
             (AnalyzeReturn(t, r) /\ r.kind \in {"null", "throw"}) =>
                 /\ currentContext' = currentContext
                 /\ ~isLoading'
                 /\ WellFormed(currentContext')
        /\ \A t \in TurnIds : \A res \in generateAndExecuteSQL :
             (SqlReturn(t, res) /\ (res.kind \in {"null", "throw"} \/ LastMsg(messages').error)) =>
                 /\ currentContext' = currentContext
                 /\ ~isLoading'
                 /\ WellFormed(currentContext')
        /\ \A t \in TurnIds :
             (turns[t].pc = "idle" /\ turns'[t].pc = "analyze") =>
                 /\ turns'[t].sent = currentContext
                 /\ WellFormed(turns'[t].sent)
      ]_vars

\* C25's case: the execution of the first turn failed, the context it had resolved is
\* still there, and the next turn has been sent with it
C25_Witness ==
    /\ \E i \in DOMAIN messages : messages[i].kind \in {"failed", "error"}
    /\ turns[1].pc = "done"
    /\ turns[2].pc = "analyze"
    /\ turns[2].sent.kpi = "headcount"
    /\ turns[2].sent = currentContext
    /\ Cardinality(InFlight) = 1


\* the entry shows no rows, no SQL text and no download link
CarriesNoResult(msg) == ~msg.sql /\ ~msg.hasData /\ msg.download = Nothing

\* C26: when the SQL request fails (it throws, or returns nothing) the turn ends with a
\* failure message that carries no rows, no SQL text and no download link; and no entry
\* of the transcript that reports an error carries any of them.
C26_FailureCarriesNoResult ==
    [][ /\ \A t \in TurnIds : \A res \in generateAndExecuteSQL :
             (SqlReturn(t, res) /\ res.kind \in {"null", "throw"}) =>
                 /\ turns'[t].pc = "done"
                 /\ LastMsg(messages').kind \in {"failed", "error"}
                 /\ LastMsg(messages').error
                 /\ CarriesNoResult(LastMsg(messages'))
        /\ \A i \in DOMAIN messages' : messages'[i].error => CarriesNoResult(messages'[i])
      ]_vars

\* C26's case: the SQL request of the only turn returned nothing
C26_Witness ==
    /\ InFlight = {}
    /\ nTurns = 1
    /\ LastMsg(messages).kind = "failed"
    /\ currentContext.kpi = "headcount"


\* C27: an execution that succeeds with no rows ends in a message that is no error, is
\* marked as having no data, carries the SQL text and has no download link; an execution
\* that fails ends in a message with an error and without SQL.
C27_EmptyResultIsNoFailure ==
    [][ \A t \in TurnIds : \A res \in generateAndExecuteSQL :
            SqlReturn(t, res) =>
                /\ (res.kind = "ok" /\ ~res.hasData) =>
                       /\ LastMsg(messages').kind = "result"
                       /\ ~LastMsg(messages').error
                       /\ ~LastMsg(messages').hasData
                       /\ LastMsg(messages').sql
                       /\ LastMsg(messages').download = Nothing
                /\ res.kind \in {"null", "throw"} =>
                       /\ LastMsg(messages').error
                       /\ ~LastMsg(messages').sql
      ]_vars

\* C27's case: the only turn's execution succeeded with no rows
C27_Witness ==
    /\ InFlight = {}
    /\ nTurns = 1
    /\ LastMsg(messages).kind = "result"
    /\ ~LastMsg(messages).hasData
    /\ LastMsg(messages).sql


(***************************************************************************)
(* The download link (under SpecLink and Spec).                            *)
(***************************************************************************)

\* the values of the parameters named `name` of a locator, in their order
ParamValues(locator, name) ==
    LET named == SelectSeq(locator, LAMBDA q : q[1] = name)
    IN  [i \in 1..Len(named) |-> named[i][2]]

C29_LinkMatchesTheQuery ==
    [][ \A t \in TurnIds : \A res \in generateAndExecuteSQL :
            (SqlReturn(t, res) /\ res.kind = "ok" /\ res.hasData) =>
                /\ LastMsg(messages').kind = "result"
                /\ LastMsg(messages').download =
                       getDownloadUrl(turns[t].sql.kpi, turns[t].sql.time_range,
                                      turns[t].sql.scope)
      ]_vars


\* C30: isLoading is true in every state in which a turn is in flight (so it turns false
\* only when none is).
C30_LoadingWhileInFlight == InFlight # {} => isLoading


\* the conversation as resetChat leaves it: the reset greeting alone and an empty context.
\* Only resetChat writes the reset greeting, and every reply and every toggle changes
\* the transcript or the context, so this is a state in which nothing has acted since
\* the last reset
JustReset == messages = <<ResetGreeting>> /\ currentContext = EmptyContext

\* C31: after resetChat the Dialogue Context stays empty and the transcript holds only
\* the reset greeting until the user's next input (a step that starts no sendMessage
\* leaves both as the reset left them), even when a resolution or execution turn was in
\* flight at the moment of the reset.
C31_ResetStaysClean ==
    [][ (JustReset /\ nTurns' = nTurns) => JustReset' ]_vars


\* the places of the 'generating SQL' placeholders in a transcript
Placeholders(q) == {i \in 1..Len(q) : q[i].kind = "generating"}

\* q without its i-th message
Without(q, i) == SubSeq(q, 1, i - 1) \o SubSeq(q, i + 1, Len(q))

\* C32: when a turn that added the 'generating SQL' placeholder ends (with a result, a
\* null result or a thrown execution error), the transcript it leaves is its reply
\* appended to the transcript before with one placeholder taken out and every other
\* message kept; when a reset has already cleared the placeholder, nothing is taken out.
C32_PlaceholderRemoved ==
    [][ \A t \in TurnIds :
            (turns[t].pc = "sql" /\ turns'[t].pc = "done") =>
                /\ messages' # <<>>
                /\ IF Placeholders(messages) = {}
                   THEN Pop(messages') = messages
                   ELSE \E i \in Placeholders(messages) : Pop(messages') = Without(messages, i)
      ]_vars


\* a step of toggleScope that takes an entry out of a selection holding nothing else:
\* the selection changes and is not the old one with an entry appended
TogglesOffTheLast ==
    /\ selectedScopes # <<>>
    /\ FilterOut(selectedScopes, Head(selectedScopes)) = <<>>
    /\ selectedScopes' # selectedScopes
    /\ \A s \in ScopeItems \cup {"tool:X"} : selectedScopes' # Append(selectedScopes, s)

\* C33: in the scope selector, once the user has toggled off every selected entry the
\* selection is empty: it is not repopulated from initialSelection (and as only a
\* toggle assigns the selection, it then stays empty until the next toggle).
C33_EmptiedStaysEmpty ==
    [][ TogglesOffTheLast => selectedScopes' = <<>> ]_vars

====
